---- MODULE Spec2Model ----
(***************************************************************************)
(* SPTPS (Simple Peer-to-Peer Security) session engine of tinc,            *)
(* src/sptps.c: the record layer (stream and datagram framing), the        *)
(* KEX/SIG/ACK handshake, the rekey cut-over and the datagram replay       *)
(* window.                                                                 *)
(*                                                                         *)
(* A session (sptps_t) is a record.  Every C function f(s, ...) is an      *)
(* operator f(s, ...) giving [s |-> the session afterwards, ok |-> the     *)
(* boolean it returns].  Three fields of the record are not fields of      *)
(* sptps_t but the session's outside world during one entry-point call:    *)
(*   out  the frames handed to the send_data callback, in order,           *)
(*   rx   the <<type, data>> pairs handed to the receive_record callback,  *)
(*   cb   the value the send_data callback returns,                        *)
(* and rnd counts the KEX records the session made, which names the        *)
(* random nonce and the ephemeral key of each of them.  keylog, keyseqno   *)
(* and reused keep the history of the session: the key material it         *)
(* derived, and the seqnos it has encrypted records with under its         *)
(* outbound key.                                                           *)
(*                                                                         *)
(* A byte is a tagged tuple: <<"b", n>> is the byte n; the outputs of the  *)
(* primitives that sptps.c calls and does not define (randomize, ecdh,     *)
(* ecdsa, prf, the AEAD) are symbolic bytes.                               *)
(***************************************************************************)
EXTENDS Integers, Sequences, FiniteSets, TLC

(***************************************************************************)
(* Bounds of the model.                                                    *)
(***************************************************************************)
MaxSends == 1
MaxKex == 2
MaxRecords == 2
MaxReceived == 2

(***************************************************************************)
(* Constants of the program.                                               *)
(***************************************************************************)
CIPHER_KEYLEN == 64
sptps_replaywin == 16
SPTPS_VERSION == 0
SPTPS_HANDSHAKE == 128
SPTPS_HEADER == 3
SPTPS_OVERHEAD == 19
SPTPS_DATAGRAM_HEADER == 5
SPTPS_DATAGRAM_OVERHEAD == 21
SPTPS_ALL_CIPHER_SUITES == 3
ECDH_SIZE == 32
ECDSA_SIZE == 64
TAG_SIZE == 16
NONCE_SIZE == 32
HALF == 65536

SPTPS_KEX == "KEX"
SPTPS_SECONDARY_KEX == "SECONDARY_KEX"
SPTPS_SIG == "SIG"
SPTPS_ACK == "ACK"

NULL == <<>>

(***************************************************************************)
(* Bytes and little-endian integers (memcpy of a uint16_t / uint32_t).     *)
(***************************************************************************)
B(n) == <<"b", n>>

IsByte(x) == Len(x) = 2 /\ x[1] = "b"

Val(x) == IF IsByte(x) THEN x[2] ELSE 0

Bytes(ns) == [i \in 1..Len(ns) |-> B(ns[i])]

LE16(n) == <<B(n % 256), B((n \div 256) % 256)>>

UnLE16(bs) == Val(bs[1]) + 256 * Val(bs[2])

\* A uint32_t is the pair <<high 16 bits, low 16 bits>>: the checker's own
\* integers are 32-bit signed.  U32Add is addition modulo 2^32 of a (possibly
\* negative) small integer; \div rounds down and % is never negative.
U32(n) == <<n \div HALF, n % HALF>>

U32Add(u, k) == LET t == u[2] + k IN <<(u[1] + t \div HALF) % HALF, t % HALF>>

U32Less(u, v) == u[1] < v[1] \/ (u[1] = v[1] /\ u[2] < v[2])

U32Div8(u) == u[1] * (HALF \div 8) + u[2] \div 8

U32Mod8(u) == u[2] % 8

LE32(u) == LE16(u[2]) \o LE16(u[1])

UnLE32(bs) == <<UnLE16(SubSeq(bs, 3, 4)), UnLE16(SubSeq(bs, 1, 2))>>

RECURSIVE BitAnd(_, _)
BitAnd(a, b) == IF a = 0 \/ b = 0 THEN 0 ELSE (a % 2) * (b % 2) + 2 * BitAnd(a \div 2, b \div 2)

Pow2(k) == 2 ^ k

TestBit(x, k) == (x \div Pow2(k)) % 2 = 1

SetBit(x, k) == IF TestBit(x, k) THEN x ELSE x + Pow2(k)

ClearBit(x, k) == IF TestBit(x, k) THEN x - Pow2(k) ELSE x

Drop(seq, n) == SubSeq(seq, n + 1, Len(seq))

Take(seq, n) == SubSeq(seq, 1, n)

R(s, ok) == [s |-> s, ok |-> ok]

(***************************************************************************)
(* The primitives sptps.c calls and does not define.                       *)
(***************************************************************************)
\* randomize(buf, 32): the 32 fresh bytes of the r-th KEX of one side.
randomize(who, r) == [i \in 1..NONCE_SIZE |-> <<"n", who, r, i>>]

\* ecdh_generate_public: the private half (the handle kept in s->ecdh) ...
ecdh_private(who, r) == <<"ecdh", who, r>>

\* ... and the ECDH_SIZE bytes of the public half written to the KEX.
ecdh_public(who, r) == [i \in 1..ECDH_SIZE |-> <<"p", who, r, i>>]

IsEcdhPublic(pub) == /\ Len(pub) = ECDH_SIZE
                     /\ Len(pub[1]) = 4
                     /\ pub[1][1] = "p"
                     /\ pub = ecdh_public(pub[1][2], pub[1][3])

\* ecdh_compute_shared: the secret both key pairs agree on.
ecdh_compute_shared(ecdh, pub) ==
  IF ecdh # NULL /\ IsEcdhPublic(pub)
  THEN [ok |-> TRUE, shared |-> <<"z", {<<ecdh[2], ecdh[3]>>, <<pub[1][2], pub[1][3]>>}>>]
  ELSE [ok |-> FALSE, shared |-> NULL]

\* ecdsa_sign: ECDSA_SIZE bytes that bind the signer and the message.
ecdsa_sign(key, msg) == [i \in 1..ECDSA_SIZE |-> IF i = 1 THEN <<"s", key[2], msg>> ELSE <<"s", i>>]

\* ecdsa_verify(hiskey, msg, sig): sig is what the holder of hiskey signs for msg.
ecdsa_verify(key, msg, sig) == sig = ecdsa_sign(key, msg)

\* prf(shared, seed): the 2 * CIPHER_KEYLEN bytes of key material.
prf(shared, seed) == <<"key", shared, seed>>

\* cipher_init: the context is the selected half of the key material.
cipher_init(suite, key, key_half) ==
  IF suite \in {0, 1} /\ key # NULL
  THEN [ok |-> TRUE, ctx |-> <<"ctx", suite, key, IF key_half THEN CIPHER_KEYLEN ELSE 0>>]
  ELSE [ok |-> FALSE, ctx |-> NULL]

\* The AEAD: ciphertext of the same length, then a 16-byte tag that binds
\* the context, the nonce and the plaintext.
Seal(ctx, seqno, in) ==
  [i \in 1..Len(in) |-> <<"c", i, in[i]>>] \o
  [j \in 1..TAG_SIZE |-> IF j = 1 THEN <<"t", ctx, seqno, in>> ELSE <<"t", j>>]

cipher_encrypt(suite, ctx, seqno, in) ==
  IF suite \in {0, 1} /\ ctx # NULL
  THEN [ok |-> TRUE, out |-> Seal(ctx, seqno, in)]
  ELSE [ok |-> FALSE, out |-> NULL]

cipher_decrypt(suite, ctx, seqno, in) ==
  IF Len(in) < TAG_SIZE \/ suite \notin {0, 1} \/ ctx = NULL
  THEN [ok |-> FALSE, out |-> NULL]
  ELSE LET inlen == Len(in) - TAG_SIZE
           plain == [i \in 1..inlen |-> IF Len(in[i]) = 3 THEN in[i][3] ELSE B(0)]
       IN IF in = Seal(ctx, seqno, plain)
          THEN [ok |-> TRUE, out |-> plain]
          ELSE [ok |-> FALSE, out |-> NULL]

(***************************************************************************)
(* The send path.  A step that can fail is followed by an operator that    *)
(* takes its result r and goes on only when r.ok.                          *)
(***************************************************************************)
\* s->send_data(s->handle, type, buffer, len): the callback is handed the
\* frame and answers s.cb.
send_data(s, type, frame) == R([s EXCEPT !.out = Append(@, frame)], s.cb)

\* The frame once cipher_encrypt has answered enc.
SendSealed(s, type, header, enc) ==
  IF ~enc.ok THEN R(s, FALSE) ELSE send_data(s, type, header \o enc.out)

\* What the session has encrypted under s->outcipher: s.keyseqno is the
\* seqno of the first record, NULL before it, and the records after it took
\* the seqnos that follow; s.reused is set once a record is encrypted under
\* s->outcipher with a seqno that an earlier one was encrypted with.
Encrypting(s, seqno) ==
  [s EXCEPT !.keyseqno = IF @ = NULL THEN seqno ELSE @,
            !.reused = @ \/ s.keyseqno = seqno]

\* The frame after its header: encrypted once outstate is set.
SendFrame(s, seqno, type, header, data) ==
  IF s.outstate
  THEN SendSealed(Encrypting(s, seqno), type, header,
                  cipher_encrypt(s.cipher_suite, s.outcipher, seqno, <<B(type)>> \o data))
  ELSE send_data(s, type, header \o <<B(type)>> \o data)

send_record_priv_datagram(s, type, data) ==
  SendFrame([s EXCEPT !.outseqno = U32Add(@, 1)], s.outseqno, type, LE32(s.outseqno), data)

send_record_priv(s, type, data) ==
  IF s.datagram THEN send_record_priv_datagram(s, type, data)
  ELSE SendFrame([s EXCEPT !.outseqno = U32Add(@, 1)], s.outseqno, type, LE16(Len(data)), data)

\* sptps_send_record without the check of the record type.
sptps_send_record_any_type(s, type, data) ==
  IF ~s.outstate THEN R(s, FALSE) ELSE send_record_priv(s, type, data)

sptps_send_record(s, type, data) ==
  IF ~s.outstate THEN R(s, FALSE)
  ELSE IF type >= SPTPS_HANDSHAKE THEN R(s, FALSE)
  ELSE send_record_priv(s, type, data)

(***************************************************************************)
(* The handshake.                                                          *)
(***************************************************************************)
Who(s) == IF s.initiator THEN "A" ELSE "B"

\* The KEX record: version, preferred suite, suites, nonce, ECDH public key.
KexRecord(s, r) ==
  <<B(SPTPS_VERSION), B(s.preferred_suite)>> \o LE16(s.cipher_suites)
  \o randomize(Who(s), r) \o ecdh_public(Who(s), r)

send_kex(s) ==
  IF s.mykex # NULL THEN R(s, FALSE)
  ELSE send_record_priv([s EXCEPT !.mykex = KexRecord(s, s.rnd + 1),
                                  !.ecdh = ecdh_private(Who(s), s.rnd + 1),
                                  !.rnd = @ + 1],
                        SPTPS_HANDSHAKE, KexRecord(s, s.rnd + 1))

SigMessage(tag, first, second, label) ==
  <<B(IF tag THEN 1 ELSE 0)>> \o first \o second \o label

send_sig(s) ==
  send_record_priv(s, SPTPS_HANDSHAKE,
                   ecdsa_sign(s.mykey, SigMessage(s.initiator, s.mykex, s.hiskex, s.label)))

KeyExpansion == Bytes(<<107, 101, 121, 32, 101, 120, 112, 97, 110, 115, 105, 111, 110>>)

\* A seed with the own KEX first on both sides.
Seed_own_first(s) ==
  KeyExpansion \o SubSeq(s.mykex, 2, 33) \o SubSeq(s.hiskex, 2, 33) \o s.label

\* The PRF seed: 32 bytes from offset 1 of each KEX, the initiator's first.
Seed(s) ==
  KeyExpansion
  \o (IF s.initiator
      THEN SubSeq(s.mykex, 2, 33) \o SubSeq(s.hiskex, 2, 33)
      ELSE SubSeq(s.hiskex, 2, 33) \o SubSeq(s.mykex, 2, 33))
  \o s.label

generate_key_material(s, shared) ==
  R([s EXCEPT !.key = prf(shared, Seed(s)), !.keylog = Append(@, prf(shared, Seed(s)))], TRUE)

send_ack(s) == send_record_priv(s, SPTPS_HANDSHAKE, <<>>)

\* receive_ack starting the sequence numbers of the new key at zero.
AckCipher_resets_seqno(s, c) ==
  IF ~c.ok THEN R(s, FALSE)
  ELSE R([s EXCEPT !.incipher = c.ctx, !.key = NULL, !.instate = TRUE, !.inseqno = U32(0)], TRUE)

\* receive_ack leaving the key material in place.
AckCipher_keeps_key(s, c) ==
  IF ~c.ok THEN R(s, FALSE)
  ELSE R([s EXCEPT !.incipher = c.ctx, !.instate = TRUE], TRUE)

\* receive_ack once cipher_init has answered c.
AckCipher(s, c) ==
  IF ~c.ok THEN R(s, FALSE)
  ELSE R([s EXCEPT !.incipher = c.ctx, !.key = NULL, !.instate = TRUE], TRUE)

receive_ack(s, data) ==
  IF Len(data) # 0 THEN R(s, FALSE)
  ELSE AckCipher(s, cipher_init(s.cipher_suite, s.key, s.initiator))

RECURSIVE LowestBit(_)
LowestBit(mask) == IF mask % 2 = 1 THEN 0 ELSE 1 + LowestBit(mask \div 2)

\* The fallback without the search for the lowest suite both sides support.
SelectLowest_no_search(mask, selection) == IF selection = 255 THEN 0 ELSE selection

\* The selection after the two preferences were looked at.
SelectLowest(mask, selection) == IF selection = 255 THEN LowestBit(mask) ELSE selection

\* The peer's preference looked at only when the local one is not viable.
SelectSecond_local_first(mask, selection, pref2) ==
  IF selection = 255 /\ TestBit(mask, pref2) THEN pref2 ELSE selection

SelectSecond(mask, selection, pref2) ==
  IF pref2 < selection /\ TestBit(mask, pref2) THEN pref2 ELSE selection

select_cipher_suite(mask, pref1, pref2) ==
  SelectLowest(mask, SelectSecond(mask, IF TestBit(mask, pref1) THEN pref1 ELSE 255, pref2))

\* receive_kex once the suite is selected: keep the peer's KEX record.
KexCopy(s, data) ==
  IF s.hiskex # NULL THEN R(s, FALSE)
  ELSE IF s.initiator THEN send_sig([s EXCEPT !.hiskex = data])
  ELSE R([s EXCEPT !.hiskex = data], TRUE)

KexSuites(s, data, suites) ==
  IF suites = 0 THEN R(s, FALSE)
  ELSE KexCopy([s EXCEPT !.cipher_suite =
                  select_cipher_suite(suites, s.preferred_suite, Val(data[2]) % 16)], data)

receive_kex(s, data) ==
  IF Len(data) # 4 + 32 + ECDH_SIZE THEN R(s, FALSE)
  ELSE IF data[1] # B(SPTPS_VERSION) THEN R(s, FALSE)
  ELSE KexSuites(s, data, BitAnd(UnLE16(SubSeq(data, 3, 4)), s.cipher_suites))

\* receive_sig, from its last step back to its first.
SigCipher(s, c) ==
  IF ~c.ok THEN R(s, FALSE) ELSE R([s EXCEPT !.outcipher = c.ctx, !.keyseqno = NULL], TRUE)

SigAcked(ak) ==
  IF ~ak.ok THEN ak
  ELSE SigCipher(ak.s, cipher_init(ak.s.cipher_suite, ak.s.key, ~ak.s.initiator))

\* receive_sig keeping the copy of the peer's KEX record.
SigFree_keeps_hiskex(s) ==
  IF s.outstate
  THEN SigAcked(send_ack([s EXCEPT !.mykex = NULL]))
  ELSE SigAcked(R([s EXCEPT !.mykex = NULL], TRUE))

\* receive_sig switching to the new outgoing key before it sends the ACK.
SigFree_new_key_first(s) ==
  IF s.outstate
  THEN send_ack(SigCipher([s EXCEPT !.mykex = NULL, !.hiskex = NULL],
                          cipher_init(s.cipher_suite, s.key, ~s.initiator)).s)
  ELSE SigAcked(R([s EXCEPT !.mykex = NULL, !.hiskex = NULL], TRUE))

SigFree(s) ==
  IF s.outstate
  THEN SigAcked(send_ack([s EXCEPT !.mykex = NULL, !.hiskex = NULL]))
  ELSE SigAcked(R([s EXCEPT !.mykex = NULL, !.hiskex = NULL], TRUE))

SigSigned(sg) == IF ~sg.ok THEN sg ELSE SigFree(sg.s)

SigKeyed(g) ==
  IF ~g.ok THEN g
  ELSE IF ~g.s.initiator THEN SigSigned(send_sig(g.s))
  ELSE SigSigned(g)

SigShared(s, z) ==
  IF ~z.ok THEN R(s, FALSE)
  ELSE SigKeyed(generate_key_material([s EXCEPT !.ecdh = NULL], z.shared))

receive_sig(s, data) ==
  IF Len(data) # ECDSA_SIZE THEN R(s, FALSE)
  ELSE IF ~ecdsa_verify(s.hiskey, SigMessage(~s.initiator, s.hiskex, s.mykex, s.label), data)
  THEN R(s, FALSE)
  ELSE SigShared(s, ecdh_compute_shared(s.ecdh, SubSeq(s.hiskex, 4 + 32 + 1, 4 + 32 + ECDH_SIZE)))

\* s->receive_record(s->handle, type, data, len); the callback answers TRUE.
receive_record(s, type, data) == R([s EXCEPT !.rx = Append(@, <<type, data>>)], TRUE)

\* sptps_force_kex without the check of the state.
sptps_force_kex_any_state(s) ==
  IF ~s.outstate THEN R(s, FALSE) ELSE send_kex([s EXCEPT !.state = SPTPS_KEX])

\* sptps_force_kex sending the KEX without moving to SPTPS_KEX.
sptps_force_kex_keeps_state(s) ==
  IF ~s.outstate \/ s.state # SPTPS_SECONDARY_KEX THEN R(s, FALSE) ELSE send_kex(s)

sptps_force_kex(s) ==
  IF ~s.outstate \/ s.state # SPTPS_SECONDARY_KEX THEN R(s, FALSE)
  ELSE send_kex([s EXCEPT !.state = SPTPS_KEX])

\* case SPTPS_KEX, entered with the result k of send_kex from SECONDARY_KEX.
HandshakeKexed(k) == IF ~k.ok THEN k ELSE R([k.s EXCEPT !.state = SPTPS_SIG], TRUE)

HandshakeKex(k, data) == IF ~k.ok THEN k ELSE HandshakeKexed(receive_kex(k.s, data))

\* The end of a handshake: receive_ack answered a.
HandshakeAcked(a) ==
  IF ~a.ok THEN a
  ELSE R([receive_record(a.s, SPTPS_HANDSHAKE, NULL).s EXCEPT !.state = SPTPS_SECONDARY_KEX], TRUE)

\* case SPTPS_SIG waiting for an ACK in the first handshake as well.
HandshakeSigned_always_ack(g) ==
  IF ~g.ok THEN g ELSE R([g.s EXCEPT !.outstate = TRUE, !.state = SPTPS_ACK], TRUE)

\* case SPTPS_SIG not waiting for the ACK of a later handshake.
HandshakeSigned_no_ack(g) ==
  IF ~g.ok THEN g
  ELSE IF g.s.outstate THEN R([g.s EXCEPT !.state = SPTPS_SECONDARY_KEX], TRUE)
  ELSE HandshakeAcked(receive_ack([g.s EXCEPT !.outstate = TRUE], NULL))

\* case SPTPS_SIG once receive_sig has answered g.
HandshakeSigned(g) ==
  IF ~g.ok THEN g
  ELSE IF g.s.outstate THEN R([g.s EXCEPT !.state = SPTPS_ACK], TRUE)
  ELSE HandshakeAcked(receive_ack([g.s EXCEPT !.outstate = TRUE], NULL))

receive_handshake(s, data) ==
  CASE s.state = SPTPS_SECONDARY_KEX -> HandshakeKex(send_kex(s), data)
    [] s.state = SPTPS_KEX -> HandshakeKex(R(s, TRUE), data)
    [] s.state = SPTPS_SIG -> HandshakeSigned(receive_sig(s, data))
    [] s.state = SPTPS_ACK -> HandshakeAcked(receive_ack(s, data))
    [] OTHER -> R(s, FALSE)

(***************************************************************************)
(* The replay window of datagram mode.                                     *)
(***************************************************************************)
LateIndex(s, seqno) == U32Div8(seqno) % s.replaywin

RECURSIVE MarkLate(_, _, _)
MarkLate(s, i, seqno) ==
  IF ~U32Less(i, seqno) THEN s
  ELSE MarkLate([s EXCEPT !.late[LateIndex(s, i)] = SetBit(@, U32Mod8(i))], U32Add(i, 1), seqno)

\* The branch for seqno >= s->inseqno + s->replaywin * 8, after s->farfuture++;
\* farfuture is the comparison made before it.
FarFutureDecide(s, farfuture, update_state) ==
  IF farfuture THEN R(s, FALSE)
  ELSE IF update_state THEN R([s EXCEPT !.late = [b \in DOMAIN s.late |-> 255]], TRUE)
  ELSE R(s, TRUE)

\* The far-future branch counting the packet whatever update_state is.
CheckFarFuture_always_counts(s, seqno, update_state) ==
  FarFutureDecide([s EXCEPT !.farfuture = @ + 1], s.farfuture < s.replaywin \div 4, update_state)

\* The far-future branch counting the packet before it compares.
CheckFarFuture_counts_first(s, seqno, update_state) ==
  FarFutureDecide(IF update_state THEN [s EXCEPT !.farfuture = @ + 1] ELSE s,
                  (IF update_state THEN s.farfuture + 1 ELSE s.farfuture) < s.replaywin \div 4,
                  update_state)

\* The far-future branch with a threshold of half the window.
CheckFarFuture_half_window(s, seqno, update_state) ==
  FarFutureDecide(IF update_state THEN [s EXCEPT !.farfuture = @ + 1] ELSE s,
                  s.farfuture < s.replaywin \div 2, update_state)

CheckFarFuture(s, seqno, update_state) ==
  FarFutureDecide(IF update_state THEN [s EXCEPT !.farfuture = @ + 1] ELSE s,
                  s.farfuture < s.replaywin \div 4, update_state)

\* The branch for seqno < s->inseqno.
CheckPast(s, seqno) ==
  IF \/ (~U32Less(s.inseqno, U32(s.replaywin * 8))
         /\ U32Less(seqno, U32Add(s.inseqno, -(s.replaywin * 8))))
     \/ ~TestBit(s.late[LateIndex(s, seqno)], U32Mod8(seqno))
  THEN R(s, FALSE)
  ELSE R(s, TRUE)

CheckWindow(s, seqno, update_state) ==
  IF seqno = s.inseqno THEN R(s, TRUE)
  ELSE IF ~U32Less(seqno, U32Add(s.inseqno, s.replaywin * 8)) THEN CheckFarFuture(s, seqno, update_state)
  ELSE IF U32Less(seqno, s.inseqno) THEN CheckPast(s, seqno)
  ELSE IF update_state THEN R(MarkLate(s, s.inseqno, seqno), TRUE)
  ELSE R(s, TRUE)

\* if(!s->inseqno) s->received = 0; else s->received++.
CountReceived(s) ==
  IF s.inseqno = U32(0) THEN [s EXCEPT !.received = U32(0)]
  ELSE [s EXCEPT !.received = U32Add(@, 1)]

AdvanceSeqno(s, seqno) ==
  IF ~U32Less(seqno, s.inseqno) THEN CountReceived([s EXCEPT !.inseqno = U32Add(seqno, 1)])
  ELSE CountReceived(s)

\* The bit of the current packet left as it was.
MarkReceived_keeps_late(s, seqno) == [s EXCEPT !.farfuture = 0]

\* Mark the current packet as not being late.
MarkReceived(s, seqno) ==
  [s EXCEPT !.late[LateIndex(s, seqno)] = ClearBit(@, U32Mod8(seqno)), !.farfuture = 0]

\* The part of sptps_check_seqno after the window has answered w.
CheckSeqnoUpdate(w, seqno, update_state) ==
  IF ~w.ok THEN w
  ELSE IF ~update_state THEN w
  ELSE IF w.s.replaywin # 0 THEN R(AdvanceSeqno(MarkReceived(w.s, seqno), seqno), TRUE)
  ELSE R(AdvanceSeqno(w.s, seqno), TRUE)

sptps_check_seqno(s, seqno, update_state) ==
  IF s.replaywin # 0
  THEN CheckSeqnoUpdate(CheckWindow(s, seqno, update_state), seqno, update_state)
  ELSE CheckSeqnoUpdate(R(s, TRUE), seqno, update_state)

\* sptps_verify_datagram once sptps_check_seqno has answered c.
VerifyTag(c, seqno, data) ==
  IF ~c.ok THEN c
  ELSE R(c.s, cipher_decrypt(c.s.cipher_suite, c.s.incipher, seqno, Drop(data, 4)).ok)

sptps_verify_datagram(s, data) ==
  IF ~s.instate \/ Len(data) < 21 THEN R(s, FALSE)
  ELSE VerifyTag(sptps_check_seqno(s, UnLE32(SubSeq(data, 1, 4)), FALSE), UnLE32(SubSeq(data, 1, 4)), data)

(***************************************************************************)
(* The receive path.                                                       *)
(***************************************************************************)
\* The dispatch on the record type, the same in both framings.
Dispatch(s, type, data) ==
  IF type < SPTPS_HANDSHAKE
  THEN IF ~s.instate THEN R(s, FALSE) ELSE receive_record(s, type, data)
  ELSE IF type = SPTPS_HANDSHAKE THEN receive_handshake(s, data)
  ELSE R(s, FALSE)

\* The datagram before the handshake has finished: plaintext, in sequence.
DatagramPlain(s, seqno, data) ==
  IF seqno # s.inseqno THEN R(s, FALSE)
  ELSE IF Val(data[5]) # SPTPS_HANDSHAKE THEN R([s EXCEPT !.inseqno = U32Add(seqno, 1)], FALSE)
  ELSE receive_handshake([s EXCEPT !.inseqno = U32Add(seqno, 1)], Drop(data, 5))

\* The datagram once sptps_check_seqno has answered c; d.out is the plaintext.
DatagramChecked(c, d) ==
  IF ~c.ok THEN c ELSE Dispatch(c.s, Val(d.out[1]), Drop(d.out, 1))

\* The replay window updated for a datagram that failed to decrypt as well.
DatagramDecrypted_check_first(s, seqno, d) ==
  IF ~d.ok THEN R(sptps_check_seqno(s, seqno, TRUE).s, FALSE)
  ELSE DatagramChecked(sptps_check_seqno(s, seqno, TRUE), d)

\* The datagram once cipher_decrypt has answered d.
DatagramDecrypted(s, seqno, d) ==
  IF ~d.ok THEN R(s, FALSE)
  ELSE DatagramChecked(sptps_check_seqno(s, seqno, TRUE), d)

sptps_receive_data_datagram(s, data) ==
  IF Len(data) < (IF s.instate THEN 21 ELSE 5) THEN R(s, FALSE)
  ELSE IF ~s.instate THEN DatagramPlain(s, UnLE32(SubSeq(data, 1, 4)), data)
  ELSE DatagramDecrypted(s, UnLE32(SubSeq(data, 1, 4)),
                         cipher_decrypt(s.cipher_suite, s.incipher, UnLE32(SubSeq(data, 1, 4)), Drop(data, 4)))

Min(a, b) == IF a < b THEN a ELSE b

\* memcpy(s->inbuf + s->buflen, data, toread); s->buflen += toread.
Buffer(s, data, toread) ==
  [s EXCEPT !.inbuf = Take(@, s.buflen) \o Take(data, toread), !.buflen = @ + toread]

RecordSize(s) == s.reclen + (IF s.instate THEN SPTPS_OVERHEAD ELSE SPTPS_HEADER)

\* What sptps_receive_data returns: the bytes consumed, 0 for an error.
Consumed(s, n) == [s |-> s, ok |-> TRUE, ret |-> n]

Fatal(s) == [s |-> s, ok |-> FALSE, ret |-> 0]

\* The record is dispatched: s->buflen = 0; return total_read.
RecordDone(r, total_read) ==
  IF ~r.ok THEN Fatal(r.s)
  ELSE Consumed([r.s EXCEPT !.buflen = 0, !.inbuf = <<>>], total_read)

\* The record decrypted in place: its plaintext d.out, then the safety NUL.
RecordDecrypted(s, d, total_read) ==
  IF ~d.ok THEN Fatal(s)
  ELSE RecordDone(Dispatch([s EXCEPT !.inbuf = Take(@, 2) \o d.out \o <<B(0)>>
                                              \o Drop(@, s.reclen + SPTPS_HEADER + 1)],
                           Val(d.out[1]), Drop(d.out, 1)),
                  total_read)

\* A whole record is in s->inbuf and s->inseqno is counted: check and decrypt.
RecordComplete(s, seqno, total_read) ==
  IF s.instate
  THEN RecordDecrypted(s, cipher_decrypt(s.cipher_suite, s.incipher, seqno,
                                         SubSeq(s.inbuf, 3, s.reclen + 19)), total_read)
  ELSE RecordDecrypted(s, [ok |-> TRUE, out |-> SubSeq(s.inbuf, 3, s.reclen + SPTPS_HEADER)],
                       total_read)

\* After the bytes of this call are buffered.
RecordBuffered(s, total_read) ==
  IF s.buflen < RecordSize(s) THEN Consumed(s, total_read)
  ELSE RecordComplete([s EXCEPT !.inseqno = U32Add(@, 1)], s.inseqno, total_read)

\* The bytes read up to the end of the record left out of the count.
ReadRecord_uncounted(s, data, total_read) ==
  RecordBuffered(Buffer(s, data, Min(RecordSize(s) - s.buflen, Len(data))), total_read)

\* Read up to the end of the record.
ReadRecord(s, data, total_read) ==
  RecordBuffered(Buffer(s, data, Min(RecordSize(s) - s.buflen, Len(data))),
                 total_read + Min(RecordSize(s) - s.buflen, Len(data)))

\* The length bytes of this call left out of the count of bytes consumed.
LengthBuffered_uncounted(s, data, toread) ==
  IF s.buflen < 2 THEN Consumed(s, toread)
  ELSE IF Len(data) - toread = 0 THEN Consumed([s EXCEPT !.reclen = UnLE16(s.inbuf)], toread)
  ELSE ReadRecord([s EXCEPT !.reclen = UnLE16(s.inbuf)], Drop(data, toread), 0)

\* After the length bytes of this call are buffered.
LengthBuffered(s, data, toread) ==
  IF s.buflen < 2 THEN Consumed(s, toread)
  ELSE IF Len(data) - toread = 0 THEN Consumed([s EXCEPT !.reclen = UnLE16(s.inbuf)], toread)
  ELSE ReadRecord([s EXCEPT !.reclen = UnLE16(s.inbuf)], Drop(data, toread), toread)

\* sptps_receive_data_datagram(s, data, len) ? len : false.
DatagramResult(r, len) == IF r.ok THEN Consumed(r.s, len) ELSE Fatal(r.s)

StateZero == "ZERO"

sptps_receive_data(s, data) ==
  IF s.state = StateZero THEN Fatal(s)
  ELSE IF s.datagram THEN DatagramResult(sptps_receive_data_datagram(s, data), Len(data))
  ELSE IF s.buflen < 2
  THEN LengthBuffered(Buffer(s, data, Min(2 - s.buflen, Len(data))), data, Min(2 - s.buflen, Len(data)))
  ELSE ReadRecord(s, data, 0)

(***************************************************************************)
(* sptps_start.                                                            *)
(***************************************************************************)
Label == Bytes(<<116, 101, 115, 116>>)

sptps_start(initiator, datagram, cipher_suites, preferred_suite, cb) ==
  send_kex([initiator |-> initiator, datagram |-> datagram,
            state |-> SPTPS_KEX, instate |-> FALSE, outstate |-> FALSE,
            mykey |-> <<"priv", IF initiator THEN "A" ELSE "B">>,
            hiskey |-> <<"pub", IF initiator THEN "B" ELSE "A">>,
            ecdh |-> NULL, mykex |-> NULL, hiskex |-> NULL, key |-> NULL,
            incipher |-> NULL, outcipher |-> NULL,
            cipher_suites |-> IF cipher_suites # 0
                              THEN BitAnd(cipher_suites, SPTPS_ALL_CIPHER_SUITES)
                              ELSE SPTPS_ALL_CIPHER_SUITES,
            preferred_suite |-> preferred_suite, cipher_suite |-> 0,
            label |-> Label,
            inseqno |-> U32(0), outseqno |-> U32(0),
            replaywin |-> sptps_replaywin,
            late |-> [b \in 0..(sptps_replaywin - 1) |-> 0],
            farfuture |-> 0, received |-> U32(0),
            inbuf |-> <<>>, buflen |-> 0, reclen |-> 0,
            out |-> <<>>, rx |-> <<>>, cb |-> cb, rnd |-> 0, keylog |-> <<>>,
            keyseqno |-> NULL, reused |-> FALSE])

(***************************************************************************)
(* Two sessions, A the initiator and B the responder, and the transport    *)
(* between them.                                                           *)
(***************************************************************************)
VARIABLES
  sptps,    \* sptps[p]: the session (sptps_t) of peer p
  stream,   \* stream[p]: the bytes in flight to p (stream mode)
  dgram,    \* dgram[p]: the datagrams in flight to p (datagram mode)
  sent,     \* sent[p]: the application records p's sptps_send_record framed
  recd,     \* recd[p]: the application records p's receive_record was handed
  hs,       \* hs[p]: how often p's receive_record was handed (128, NULL, 0)
  failed,   \* failed[p]: sptps_receive_data of p reported a fatal error
  last      \* the last entry-point call: what it was given and what it did

vars == <<sptps, stream, dgram, sent, recd, hs, failed, last>>

Peers == {"A", "B"}

Other(p) == IF p = "A" THEN "B" ELSE "A"

RECURSIVE Flat(_)
Flat(frames) == IF frames = <<>> THEN <<>> ELSE Head(frames) \o Flat(Tail(frames))

\* The session as an entry point finds it: nothing handed to the callbacks yet.
Entry(sess, cb) == [sess EXCEPT !.out = <<>>, !.rx = <<>>, !.cb = cb]

Idle(sess) == Entry(sess, TRUE)

AppRecords(rx) == SelectSeq(rx, LAMBDA e : e[1] < SPTPS_HANDSHAKE)

Notifications(rx) == Len(SelectSeq(rx, LAMBDA e : e[1] = SPTPS_HANDSHAKE))

\* What an entry-point call on p that left session t behind did to the world:
\* the frames its send_data accepted are in flight to the peer.
Effects(p, t, bytes, datagrams) ==
  /\ sptps' = [sptps EXCEPT ![p] = Idle(t)]
  /\ stream' = [stream EXCEPT ![p] = bytes,
                              ![Other(p)] = IF t.datagram \/ ~t.cb THEN @ ELSE @ \o Flat(t.out)]
  /\ dgram' = [dgram EXCEPT ![p] = datagrams,
                            ![Other(p)] = IF t.datagram /\ t.cb THEN @ \o t.out ELSE @]
  /\ recd' = [recd EXCEPT ![p] = @ \o AppRecords(t.rx)]
  /\ hs' = [hs EXCEPT ![p] = @ + Notifications(t.rx)]

Called(op, p, arg, r, ret) ==
  [op |-> op, p |-> p, arg |-> arg, cb |-> r.s.cb, ok |-> r.ok, ret |-> ret,
   out |-> r.s.out, rx |-> r.s.rx]

\* The parameters of the two sptps_start calls: cipher_suites and
\* preferred_suite of A, then of B.
Configs == {<<0, 0, 0, 0>>, <<0, 0, 2, 1>>}

Started(datagram, cfg) ==
  [A |-> sptps_start(TRUE, datagram, cfg[1], cfg[2], TRUE).s,
   B |-> sptps_start(FALSE, datagram, cfg[3], cfg[4], TRUE).s]

\* The world around two sessions w whose out fields hold what is in flight
\* to the peer.
World(w) ==
  /\ sptps = [p \in Peers |-> Idle(w[p])]
  /\ stream = [p \in Peers |-> IF w[p].datagram THEN <<>> ELSE Flat(w[Other(p)].out)]
  /\ dgram = [p \in Peers |-> IF w[p].datagram THEN w[Other(p)].out ELSE <<>>]
  /\ sent = [p \in Peers |-> <<>>]
  /\ recd = [p \in Peers |-> <<>>]
  /\ hs = [p \in Peers |-> Notifications(w[p].rx)]
  /\ failed = [p \in Peers |-> FALSE]
  /\ last = [op |-> "start", p |-> "A", arg |-> <<>>, cb |-> TRUE, ok |-> TRUE, ret |-> 0,
             out |-> <<>>, rx |-> <<>>]

Init == \E datagram \in BOOLEAN, cfg \in Configs : World(Started(datagram, cfg))

\* Peer p is handed the oldest frame in flight to it.
Handover(w, p) ==
  [w EXCEPT ![p] = sptps_receive_data(w[p], Head(w[Other(p)].out)).s,
            ![Other(p)].out = Tail(@)]

\* The two sessions after KEX, KEX, SIG, SIG.
Established(datagram, cfg) ==
  Handover(Handover(Handover(Handover(Started(datagram, cfg), "A"), "B"), "B"), "A")

\* The caller of p feeds sptps_receive_data the first n bytes in flight and
\* keeps what the call did not consume.
FeedResult(p, n, r) ==
  /\ Effects(p, r.s, Drop(stream[p], r.ret), dgram[p])
  /\ failed' = [failed EXCEPT ![p] = ~r.ok]
  /\ last' = Called("receive_data", p, <<>>, r, r.ret)
  /\ UNCHANGED sent

Feed(p, n, cb) ==
  /\ ~failed[p]
  /\ ~sptps[p].datagram
  /\ n \in 1..Len(stream[p])
  /\ FeedResult(p, n, sptps_receive_data(Entry(sptps[p], cb), Take(stream[p], n)))

\* The caller of p feeds sptps_receive_data the next datagram in flight.
DeliverResult(p, r) ==
  /\ Effects(p, r.s, stream[p], Tail(dgram[p]))
  /\ failed' = [failed EXCEPT ![p] = ~r.ok]
  /\ last' = Called("receive_data", p, <<>>, r, r.ret)
  /\ UNCHANGED sent

Deliver(p, cb) ==
  /\ ~failed[p]
  /\ sptps[p].datagram
  /\ dgram[p] # <<>>
  /\ DeliverResult(p, sptps_receive_data(Entry(sptps[p], cb), Head(dgram[p])))

\* Over the reliable transport every call is handed all the bytes in flight.
Receive(p) == Feed(p, Len(stream[p]), TRUE) \/ Deliver(p, TRUE)

SendRecordResult(p, type, data, r) ==
  /\ Effects(p, r.s, stream[p], dgram[p])
  /\ sent' = [sent EXCEPT ![p] = IF r.s.out # <<>> THEN Append(@, <<type, data>>) ELSE @]
  /\ last' = Called("send_record", p, <<type>>, r, 0)
  /\ UNCHANGED failed

SendRecord(p, type, data, cb) ==
  /\ ~failed[p]
  /\ SendRecordResult(p, type, data, sptps_send_record(Entry(sptps[p], cb), type, data))

ForceKexResult(p, r) ==
  /\ Effects(p, r.s, stream[p], dgram[p])
  /\ last' = Called("force_kex", p, <<>>, r, 0)
  /\ UNCHANGED <<sent, failed>>

\* MaxKex bounds the handshakes: a call that would start one more is left out.
ForceKex(p, cb) ==
  /\ ~failed[p]
  /\ sptps[p].rnd < MaxKex \/ sptps[p].state # SPTPS_SECONDARY_KEX
  /\ ForceKexResult(p, sptps_force_kex(Entry(sptps[p], cb)))

Types == {0, 127, SPTPS_HANDSHAKE, 255}

Hello == Bytes(<<104, 105>>)

Next ==
  \E p \in Peers :
    \/ Receive(p)
    \/ Len(sent[p]) < MaxSends /\ SendRecord(p, 0, Hello, TRUE)
    \/ ForceKex(p, TRUE)

Spec == Init /\ [][Next]_vars

\* The reliable transport hands every byte in flight to the receiver: weak
\* fairness of Receive(p), written out.  CanReceive(p) is the guard of
\* Receive(p), that is ENABLED <<Receive(p)>>_vars, and the steps that leave
\* a receive_data of p in last are the steps of Receive(p).
CanReceive(p) ==
  /\ ~failed[p]
  /\ IF sptps[p].datagram THEN dgram[p] # <<>> ELSE stream[p] # <<>>

ReceiveStep(p) == last'.op = "receive_data" /\ last'.p = p

FairSpec ==
  Spec /\ \A p \in Peers : []<>(~CanReceive(p)) \/ []<><<ReceiveStep(p)>>_vars

(***************************************************************************)
(* The byte stream after the handshake, handed to B in chunks of any size. *)
(***************************************************************************)
StreamRecords == {<<0, <<>>>>, <<127, Hello>>}

NextStream ==
  \/ /\ Len(sent["A"]) < MaxRecords
     /\ \E rec \in StreamRecords : SendRecord("A", rec[1], rec[2], TRUE)
  \/ \E n \in 1..Len(stream["B"]) : Feed("B", n, TRUE)

InitStream == \E cfg \in Configs : World(Established(FALSE, cfg))

SpecStream == InitStream /\ [][NextStream]_vars

(***************************************************************************)
(* Datagrams after the handshake.  The network hands B the datagrams A     *)
(* has sent in any order and any number of times, or something else.       *)
(***************************************************************************)
\* A sequence number three short of the end of the 32-bit range.
NearWrap == <<HALF - 1, HALF - 3>>

SeqInputs == {U32(2), U32(3), U32(4), U32(200), NearWrap}

\* The datagram A sends as its record number seqno; the payload names it.
Authentic(seqno) ==
  send_record_priv_datagram([Idle(sptps["A"]) EXCEPT !.outseqno = seqno], 0, LE32(seqno)).s.out[1]

Flip(byte) == IF byte[1] = "b" THEN B((byte[2] + 1) % 256) ELSE <<"x", byte>>

\* The datagram A sends as its record number seqno of the given type.
AuthenticTyped(seqno, type) ==
  send_record_priv_datagram([Idle(sptps["A"]) EXCEPT !.outseqno = seqno], type, LE32(seqno)).s.out[1]

\* The datagram with byte k changed in flight, untouched for k = 0.
Tampered(frame, k) == IF k = 0 THEN frame ELSE [frame EXCEPT ![k] = Flip(@)]

\* Nothing, the first byte of the ciphertext, the last byte of the tag.
Flips == {0, SPTPS_DATAGRAM_HEADER, SPTPS_DATAGRAM_OVERHEAD + 4}

\* The receiver after the records 2 .. n - 1 arrived in order.
InOrder(sess, n) == [sess EXCEPT !.inseqno = n, !.received = U32Add(n, -2)]

InitDgram ==
  \E n \in {U32(2), NearWrap} :
    World([Established(TRUE, <<0, 0, 0, 0>>) EXCEPT !["B"] = InOrder(@, n)])

ReceiveDatagramResult(seqno, k, r) ==
  /\ Effects("B", r.s, stream["B"], dgram["B"])
  /\ last' = Called("receive_datagram", "B", <<seqno, k>>, r, r.ret)
  /\ UNCHANGED <<sent, failed>>

ReceiveDatagram(seqno, k) ==
  /\ Len(recd["B"]) < MaxReceived
  /\ ReceiveDatagramResult(seqno, k,
       sptps_receive_data(Idle(sptps["B"]), Tampered(Authentic(seqno), k)))

VerifyDatagramResult(seqno, k, r) ==
  /\ Effects("B", r.s, stream["B"], dgram["B"])
  /\ last' = Called("verify_datagram", "B", <<seqno, k>>, r, 0)
  /\ UNCHANGED <<sent, failed>>

VerifyDatagram(seqno, k) ==
  VerifyDatagramResult(seqno, k,
    sptps_verify_datagram(Idle(sptps["B"]), Tampered(Authentic(seqno), k)))

NextDgram ==
  \E seqno \in SeqInputs, k \in Flips :
    \/ ReceiveDatagram(seqno, k)
    \/ VerifyDatagram(seqno, k)

SpecDgram == InitDgram /\ [][NextDgram]_vars

\* The send_data callback may refuse a frame, which is then not in flight.
NextCb ==
  \E p \in Peers :
    \/ Receive(p)
    \/ /\ Len(sent[p]) < MaxSends
       /\ \E type \in Types, cb \in BOOLEAN : SendRecord(p, type, Hello, cb)

SpecCb == Init /\ [][NextCb]_vars

(***************************************************************************)
(* The first handshake for every pair of cipher-suite masks and a choice   *)
(* of preferred suites: in the masks, outside of them, the largest.        *)
(***************************************************************************)
SuiteMasks == {1, 2, 3}

Preferences == {0, 1, 2, 15}

InitSuite ==
  \E datagram \in BOOLEAN,
     ma \in SuiteMasks, pa \in Preferences, mb \in SuiteMasks, pb \in Preferences :
    World(Started(datagram, <<ma, pa, mb, pb>>))

NextSuite == \E p \in Peers : Receive(p)

SpecSuite == InitSuite /\ [][NextSuite]_vars

(***************************************************************************)
(* Two sessions that have exchanged 2^32 - 4 application records in each   *)
(* direction since the handshake: the counters are two short of the end of *)
(* the 32-bit range.                                                       *)
(***************************************************************************)
Max32 == <<HALF - 1, HALF - 1>>

WrapStart == <<HALF - 1, HALF - 2>>

InitWrap ==
  \E datagram \in BOOLEAN :
    World([p \in Peers |->
             InOrder([Established(datagram, <<0, 0, 0, 0>>)[p] EXCEPT !.outseqno = WrapStart],
                     WrapStart)])

SpecWrap == InitWrap /\ [][Next]_vars

(***************************************************************************)
(* Datagrams that arrive out of order: B has received the records up to 3  *)
(* in order and is handed later ones with gaps, then those of the gaps.    *)
(***************************************************************************)
MaxLate == 4

FirstLate == U32(4)

LateInputs == {U32(2), U32(4), U32(5), U32(6), U32(7), U32(9)}

InitLate == World([Established(TRUE, <<0, 0, 0, 0>>) EXCEPT !["B"] = InOrder(@, FirstLate)])

ReceiveLate(seqno) ==
  /\ Len(recd["B"]) < MaxLate
  /\ ReceiveDatagramResult(seqno, 0, sptps_receive_data(Idle(sptps["B"]), Authentic(seqno)))

NextLate == \E seqno \in LateInputs : ReceiveLate(seqno)

SpecLate == InitLate /\ [][NextLate]_vars

(***************************************************************************)
(* A simultaneous rekey: after the first handshake both applications call  *)
(* sptps_force_kex before either session is handed the KEX of the other.   *)
(***************************************************************************)
InitSimul == \E datagram \in BOOLEAN, cfg \in Configs : World(Established(datagram, cfg))

\* Both sessions have sent the KEX of their second handshake.
BothCalled == \A q \in Peers : sptps[q].rnd = 2

NextSimul ==
  \E p \in Peers :
    \/ sptps[p].rnd = 1 /\ ForceKex(p, TRUE)
    \/ BothCalled /\ Receive(p)
    \/ Len(sent[p]) < MaxSends /\ SendRecord(p, 0, Hello, TRUE)

\* The transport hands over what is in flight once both have called: weak
\* fairness of BothCalled /\ Receive(p), written out as in FairSpec.
SpecSimul ==
  /\ InitSimul /\ [][NextSimul]_vars
  /\ \A p \in Peers : []<>(~(BothCalled /\ CanReceive(p))) \/ []<><<ReceiveStep(p)>>_vars

(***************************************************************************)
(* A session that has sent every record from the first under its key up to *)
(* number 2^32 - 2 and goes on sending, with and without a rekey.          *)
(***************************************************************************)
MaxNonce == 4

\* The first encrypted record of a session is its record number 2.
FirstSealed == U32(2)

InitNonce ==
  \E datagram \in BOOLEAN :
    World([Established(datagram, <<0, 0, 0, 0>>) EXCEPT
             !["A"] = [@ EXCEPT !.outseqno = Max32, !.keyseqno = FirstSealed],
             !["B"] = InOrder(@, Max32)])

NextNonce ==
  \/ Len(sent["A"]) < MaxNonce /\ SendRecord("A", 0, Hello, TRUE)
  \/ ForceKex("A", TRUE)
  \/ \E p \in Peers : Receive(p)

SpecNonce == InitNonce /\ [][NextNonce]_vars

(***************************************************************************)
(* The byte stream from the first KEX on: the caller of B hands            *)
(* sptps_receive_data a chunk of the bytes in flight, and B's send_data    *)
(* may refuse a frame; A is handed all its bytes, sends a record and       *)
(* starts the second handshake.                                            *)
(***************************************************************************)
ChunkSizes == {1, 2, 3, 70}

InitChunk == \E cfg \in Configs : World(Started(FALSE, cfg))

\* As FeedResult, with the length of the chunk kept in last.arg.
FeedChunkResult(p, n, r) ==
  /\ Effects(p, r.s, Drop(stream[p], r.ret), dgram[p])
  /\ failed' = [failed EXCEPT ![p] = ~r.ok]
  /\ last' = Called("receive_data", p, <<n>>, r, r.ret)
  /\ UNCHANGED sent

FeedChunk(p, n, cb) ==
  /\ ~failed[p]
  /\ ~sptps[p].datagram
  /\ n \in 1..Len(stream[p])
  /\ FeedChunkResult(p, n, sptps_receive_data(Entry(sptps[p], cb), Take(stream[p], n)))

NextChunk ==
  \/ FeedChunk("A", Len(stream["A"]), TRUE)
  \/ \E n \in ChunkSizes \cup {Len(stream["B"])}, cb \in BOOLEAN : FeedChunk("B", n, cb)
  \/ Len(sent["A"]) < MaxSends /\ SendRecord("A", 0, Hello, TRUE)
  \/ ForceKex("A", TRUE)

SpecChunk == InitChunk /\ [][NextChunk]_vars

(***************************************************************************)
(* Properties.                                                             *)
(***************************************************************************)
\* The session of p has finished a handshake and sends and receives under keys.
Keyed(p) ==
  /\ sptps[p].state = SPTPS_SECONDARY_KEX
  /\ sptps[p].instate
  /\ sptps[p].outstate

IsPrefix(a, b) == Len(a) <= Len(b) /\ a = SubSeq(b, 1, Len(a))

C2_KeyAgreement ==
  \A r \in 1..MaxKex + 1 :
    (r <= Len(sptps["A"].keylog) /\ r <= Len(sptps["B"].keylog))
      => sptps["A"].keylog[r] = sptps["B"].keylog[r]

C2_Witness ==
  /\ Len(sptps["A"].keylog) = 2
  /\ Len(sptps["B"].keylog) = 2
  /\ sptps["A"].keylog[2] = sptps["B"].keylog[2]
  /\ sptps["A"].keylog[2] # sptps["A"].keylog[1]

\* C3: after the handshake, the frames of N sptps_send_record calls, fed to
\* the peer's sptps_receive_data in chunks of any size by a caller that
\* feeds again what a call did not consume, are handed to receive_record as
\* the same N application records in the same order: at every moment the
\* records handed over are the first of those sent, all of them once no byte
\* is left; every call consumes at least one byte and none fails.
C3_StreamRoundTrip ==
  /\ ~failed["B"]
  /\ hs["B"] = 1
  /\ IsPrefix(recd["B"], sent["A"])
  /\ stream["B"] = <<>> => recd["B"] = sent["A"]
  /\ last.op = "receive_data" => last.ok /\ last.ret > 0

\* Two records have arrived, the second completed by a chunk of one byte.
C3_Witness ==
  /\ Len(sent["A"]) = 2
  /\ recd["B"] = sent["A"]
  /\ last.op = "receive_data" /\ last.ret = 1 /\ Len(last.rx) = 1

\* The application record A sends as its record number seqno was handed to
\* B's receive_record.
Delivered(seqno) == \E i \in 1..Len(recd["B"]) : recd["B"][i] = <<0, LE32(seqno)>>

\* C4: in datagram mode an authentic datagram whose sequence number was
\* accepted earlier is rejected when it is presented again: the call fails
\* and the record is not handed to receive_record a second time.
C4_ReplayRejected ==
  [][(/\ last'.op = "receive_datagram"
      /\ last'.arg[2] = 0
      /\ Delivered(last'.arg[1]))
       => (~last'.ok /\ recd' = recd)]_vars

\* C5: sptps_send_record with outstate set and a type below 128 hands one
\* frame to send_data and returns what send_data returns; with a type of 128
\* or more, or with outstate not set, it returns false, hands nothing to
\* send_data and leaves outseqno as it was.
C5_SendRecordResult ==
  [][\A p \in Peers :
       (last'.op = "send_record" /\ last'.p = p) =>
         IF sptps[p].outstate /\ last'.arg[1] < SPTPS_HANDSHAKE
         THEN /\ Len(last'.out) = 1
              /\ last'.ok = last'.cb
         ELSE /\ ~last'.ok
              /\ last'.out = <<>>
              /\ sptps'[p].outseqno = sptps[p].outseqno]_vars

\* An application record that send_data refused.
C5_Witness ==
  /\ last.op = "send_record"
  /\ sptps[last.p].outstate
  /\ last.arg[1] < SPTPS_HANDSHAKE
  /\ ~last.cb /\ ~last.ok /\ Len(last.out) = 1

\* C6: sptps_verify_datagram leaves inseqno, late, farfuture, received,
\* state, instate and outstate as they were, whatever it returns.
C6_VerifyChangesNothing ==
  [][last'.op = "verify_datagram" =>
       /\ sptps'["B"].inseqno = sptps["B"].inseqno
       /\ sptps'["B"].late = sptps["B"].late
       /\ sptps'["B"].farfuture = sptps["B"].farfuture
       /\ sptps'["B"].received = sptps["B"].received
       /\ sptps'["B"].state = sptps["B"].state
       /\ sptps'["B"].instate = sptps["B"].instate
       /\ sptps'["B"].outstate = sptps["B"].outstate]_vars

\* An authentic datagram far ahead of the window was refused by
\* sptps_verify_datagram while earlier ones had been counted.
C6_Witness ==
  /\ last.op = "verify_datagram"
  /\ last.arg = <<U32(200), 0>>
  /\ ~last.ok
  /\ sptps["B"].inseqno = U32(2)
  /\ sptps["B"].farfuture > 0

\* C7: in datagram mode with instate set, a datagram whose tag does not
\* verify makes sptps_receive_data fail and leaves inseqno, late, farfuture
\* and received as they were.
C7_TamperedChangesNothing ==
  [][(last'.op = "receive_datagram" /\ last'.arg[2] # 0) =>
       /\ ~last'.ok
       /\ last'.rx = <<>>
       /\ sptps'["B"].inseqno = sptps["B"].inseqno
       /\ sptps'["B"].late = sptps["B"].late
       /\ sptps'["B"].farfuture = sptps["B"].farfuture
       /\ sptps'["B"].received = sptps["B"].received]_vars

\* A tampered datagram far ahead of the window has been refused.
C7_Witness ==
  /\ last.op = "receive_datagram"
  /\ last.arg = <<U32(200), SPTPS_DATAGRAM_HEADER>>
  /\ ~last.ok
  /\ sptps["B"].instate
  /\ sptps["B"].inseqno = U32(2)

\* The frame of a KEX record kex sent by session s.
KexFrame(s, kex) ==
  (IF s.datagram THEN LE32(s.outseqno) ELSE LE16(Len(kex)))
  \o Seal(s.outcipher, s.outseqno, <<B(SPTPS_HANDSHAKE)>> \o kex)

\* C8: sptps_force_kex in state SPTPS_SECONDARY_KEX with outstate set moves
\* to SPTPS_KEX and emits exactly one record, a KEX; in every other state it
\* returns false, emits nothing and changes nothing in the session (so
\* state, mykex and outseqno are as they were).  It succeeds only in the
\* first case.
C8_ForceKex ==
  [][\A p \in Peers :
       (last'.op = "force_kex" /\ last'.p = p) =>
         IF sptps[p].state = SPTPS_SECONDARY_KEX /\ sptps[p].outstate
         THEN /\ sptps'[p].state = SPTPS_KEX
              /\ Len(sptps'[p].mykex) = 4 + NONCE_SIZE + ECDH_SIZE
              /\ last'.out = <<KexFrame(sptps[p], sptps'[p].mykex)>>
              /\ sptps'[p].outseqno = U32Add(sptps[p].outseqno, 1)
              /\ last'.ok
         ELSE /\ ~last'.ok
              /\ last'.out = <<>>
              /\ sptps'[p] = sptps[p]]_vars

\* A forced KEX has been sent.
C8_Witness ==
  /\ last.op = "force_kex" /\ last.ok
  /\ sptps[last.p].state = SPTPS_KEX
  /\ sptps[last.p].rnd = 2

\* C9: once a session has started a secondary handshake, both sessions
\* return to SPTPS_SECONDARY_KEX with that handshake finished, and each
\* handshake hands (128, NULL, 0) to receive_record exactly once on each
\* side: a session has been notified once per KEX it sent, less the one of
\* the handshake it is in, which it is in exactly when its state is KEX, SIG
\* or ACK.
C9_RekeyCompletes ==
  /\ \A p \in Peers :
       (sptps[p].rnd > 1) ~>
         (\A q \in Peers : Keyed(q) /\ hs[q] > 1 /\ hs[q] = sptps[q].rnd)
  /\ [](\A p \in Peers :
          /\ sptps[p].state = SPTPS_SECONDARY_KEX => hs[p] = sptps[p].rnd
          /\ sptps[p].state \in {SPTPS_KEX, SPTPS_SIG, SPTPS_ACK} => hs[p] = sptps[p].rnd - 1)

\* Both sessions are through the second handshake.
C9_Witness ==
  \A p \in Peers : Keyed(p) /\ hs[p] = 2 /\ sptps[p].rnd = 2 /\ sptps[p].key = NULL

\* The records in a byte stream, each without its two bytes of length.
RECURSIVE Records(_)
Records(bytes) ==
  IF Len(bytes) < SPTPS_HEADER THEN <<>>
  ELSE <<SubSeq(bytes, 3, UnLE16(bytes) + (IF bytes[3][1] = "c" THEN SPTPS_OVERHEAD ELSE SPTPS_HEADER))>>
       \o Records(Drop(bytes, UnLE16(bytes) + (IF bytes[3][1] = "c" THEN SPTPS_OVERHEAD ELSE SPTPS_HEADER)))

\* The records in flight to p, oldest first, without length or seqno.
InFlight(p) ==
  IF sptps[p].datagram THEN [i \in 1..Len(dgram[p]) |-> Drop(dgram[p][i], 4)]
  ELSE Records(stream[p])

IsSealed(record) == record[1][1] = "c"

\* The context and the plaintext a sealed record was encrypted with.
SealedUnder(record) == record[Len(record) - TAG_SIZE + 1][2]

SealedPlain(record) == record[Len(record) - TAG_SIZE + 1][4]

IsAck(record) == IsSealed(record) /\ SealedPlain(record) = <<B(SPTPS_HANDSHAKE)>>

\* Every sealed record of records is sealed under cur up to and including
\* the first ACK, and under next after it.
RECURSIVE KeysAgree(_, _, _)
KeysAgree(records, cur, next) ==
  \/ records = <<>>
  \/ /\ IsSealed(Head(records)) => SealedUnder(Head(records)) = cur
     /\ KeysAgree(Tail(records), IF IsAck(Head(records)) THEN next ELSE cur, next)

\* C10: over the reliable in-order transport every record in flight is
\* sealed under the key the receiver will decrypt it with: the records up to
\* and including an ACK under the receiver's inbound key of now, the records
\* after the ACK under the sender's new outbound key, to which the receiver
\* switches when it processes the ACK.  No session fails, and the
\* application records arrive intact and in order, whenever they were sent.
C10_RekeyCutOver ==
  \A p \in Peers :
    /\ ~failed[p]
    /\ KeysAgree(InFlight(p),
                 IF sptps[p].instate THEN sptps[p].incipher ELSE sptps[Other(p)].outcipher,
                 sptps[Other(p)].outcipher)
    /\ sptps[p].instate /\ sptps[Other(p)].outstate /\ InFlight(p) = <<>>
         => sptps[p].incipher = sptps[Other(p)].outcipher
    /\ IsPrefix(recd[p], sent[Other(p)])
    /\ InFlight(p) = <<>> => recd[p] = sent[Other(p)]

\* An application record sealed under the new key is in flight behind the
\* ACK to a receiver that still decrypts under the old key.
C10_Witness ==
  \E p \in Peers :
    /\ sptps[p].rnd = 2
    /\ sptps[p].instate
    /\ sptps[p].incipher # sptps[Other(p)].outcipher
    /\ Len(InFlight(p)) = 2
    /\ IsAck(InFlight(p)[1])
    /\ ~IsAck(InFlight(p)[2])
    /\ SealedUnder(InFlight(p)[2]) = sptps[Other(p)].outcipher

\* The suites both sessions advertise.
Common == BitAnd(sptps["A"].cipher_suites, sptps["B"].cipher_suites)

\* The session of p has selected a suite: its receive_kex has succeeded.
Selected(p) == ~failed[p] /\ sptps[p].state # SPTPS_KEX

\* C11: for every pair of advertised masks with a suite in common and every
\* pair of preferred suites, the cipher_suite the initiator selects in
\* receive_kex is the cipher_suite the responder selects; with no suite in
\* common no session selects one.
C11_SuiteAgreement ==
  /\ (Selected("A") /\ Selected("B")) => sptps["A"].cipher_suite = sptps["B"].cipher_suite
  /\ \A p \in Peers : Selected(p) => Common # 0 /\ TestBit(Common, sptps[p].cipher_suite)

\* Both sessions have selected suite 0 although the initiator prefers suite 1
\* and both advertise it.
C11_Witness ==
  /\ Selected("A") /\ Selected("B")
  /\ Common = 3
  /\ sptps["A"].preferred_suite = 1 /\ sptps["B"].preferred_suite = 0
  /\ sptps["A"].cipher_suite = 0 /\ sptps["B"].cipher_suite = 0

\* The preferred suite the peer of p has written to its KEX, as p reads it.
PeerPreference(p) == sptps[Other(p)].preferred_suite % 16

Viable(suite) == TestBit(Common, suite)

\* C12 as stated: the negotiated suite is the local preferred suite whenever
\* that is in the intersection of the masks, otherwise the peer's preferred
\* suite if that is in the intersection, otherwise the lowest suite in it.
C12_LocalPreferenceFirst ==
  \A p \in Peers :
    Selected(p) =>
      sptps[p].cipher_suite =
        IF Viable(sptps[p].preferred_suite) THEN sptps[p].preferred_suite
        ELSE IF Viable(PeerPreference(p)) THEN PeerPreference(p)
        ELSE LowestBit(Common)

\* C12 amended: the negotiated suite is the lower-numbered of the local and
\* the peer's preferred suites that are in the intersection of the masks
\* (the one that is in it when only one is), otherwise the lowest suite in
\* the intersection.
C12_SelectionRule ==
  \A p \in Peers :
    Selected(p) =>
      sptps[p].cipher_suite =
        IF Viable(sptps[p].preferred_suite) /\ Viable(PeerPreference(p))
        THEN Min(sptps[p].preferred_suite, PeerPreference(p))
        ELSE IF Viable(sptps[p].preferred_suite) THEN sptps[p].preferred_suite
        ELSE IF Viable(PeerPreference(p)) THEN PeerPreference(p)
        ELSE LowestBit(Common)

\* Neither preferred suite is advertised by both: suite 1, the only one in
\* the intersection, is selected by both sessions.
C12_Witness ==
  /\ Selected("A") /\ Selected("B")
  /\ Common = 2
  /\ sptps["A"].preferred_suite = 0 /\ sptps["B"].preferred_suite = 15
  /\ sptps["A"].cipher_suite = 1 /\ sptps["B"].cipher_suite = 1

\* The offset into the key material a cipher context was initialised from.
KeyOffset(ctx) == ctx[4]

\* C13: whenever outstate is set the initiator's outbound cipher is keyed
\* from offset 64 of the key material and the responder's from offset 0;
\* whenever instate is set the initiator's inbound cipher is keyed from
\* offset 0 and the responder's from offset 64.
C13_KeyHalves ==
  \A p \in Peers :
    /\ sptps[p].outstate =>
         KeyOffset(sptps[p].outcipher) = (IF sptps[p].initiator THEN CIPHER_KEYLEN ELSE 0)
    /\ sptps[p].instate =>
         KeyOffset(sptps[p].incipher) = (IF sptps[p].initiator THEN 0 ELSE CIPHER_KEYLEN)

KexNonce(kex) == SubSeq(kex, 4 + 1, 4 + NONCE_SIZE)

\* C17: the PRF seed of generate_key_material is "key expansion", then the
\* 32-byte nonce of the initiator's KEX record, then the 32-byte nonce of
\* the responder's KEX record, then the label.
C17_SeedNonces ==
  \A p \in Peers :
    \A r \in 1..Len(sptps[p].keylog) :
      sptps[p].keylog[r][3] =
        KeyExpansion \o KexNonce(KexRecord(sptps["A"], r))
                     \o KexNonce(KexRecord(sptps["B"], r)) \o sptps[p].label

\* C14 as stated: over every sequence of sends and receives, counters that
\* reach 2^32 - 1 included, outseqno and inseqno never take a value smaller
\* than one they held earlier.
C14_CountersMonotonic ==
  [][\A p \in Peers :
       /\ ~U32Less(sptps'[p].outseqno, sptps[p].outseqno)
       /\ ~U32Less(sptps'[p].inseqno, sptps[p].inseqno)]_vars

\* C14 amended: outseqno and inseqno never take a smaller value except by
\* wrapping around the end of the 32-bit range: outseqno becomes smaller only
\* in a call that sends records, counted one by one modulo 2^32, and inseqno
\* becomes smaller only when the record with sequence number 2^32 - 1 is
\* received, which sets it to 0.
C14_CountersWrapOnly ==
  [][\A p \in Peers :
       /\ U32Less(sptps'[p].outseqno, sptps[p].outseqno) =>
            /\ last'.p = p
            /\ last'.out # <<>>
            /\ sptps'[p].outseqno = U32Add(sptps[p].outseqno, Len(last'.out))
       /\ U32Less(sptps'[p].inseqno, sptps[p].inseqno) =>
            /\ last'.op = "receive_data" /\ last'.p = p
            /\ sptps[p].inseqno = Max32
            /\ sptps'[p].inseqno = U32(0)]_vars

\* Both counters of one direction have passed 2^32 - 1 and gone on from 0.
C14_Witness ==
  /\ sptps["A"].outseqno = U32(1)
  /\ sptps["B"].inseqno = U32(1)
  /\ ~failed["B"]

\* The numbers of the sequence numbers a window of replaywin bytes covers.
WindowBits == sptps_replaywin * 8

\* inseqno + 8W is within the 32-bit range.
WindowInRange(inseqno) == U32Less(inseqno, U32Add(inseqno, WindowBits))

\* seqno >= inseqno + 8W.
FarAhead(inseqno, seqno) ==
  WindowInRange(inseqno) /\ ~U32Less(seqno, U32Add(inseqno, WindowBits))

\* The bit of seqno is set in the bitmap late.
IsLate(late, seqno) == TestBit(late[U32Div8(seqno) % sptps_replaywin], U32Mod8(seqno))

\* C18: an authentic datagram with seqno >= inseqno + 8W is rejected while
\* farfuture is below W/4, that is the first W/4 of them in a row: inseqno
\* and late stay as they are and farfuture is incremented.  The next one is
\* accepted: every seqno of the window is marked late except its own,
\* inseqno is seqno + 1 and farfuture is 0.
C18_FarFutureFlood ==
  [][(/\ last'.op = "receive_datagram"
      /\ last'.arg[2] = 0
      /\ FarAhead(sptps["B"].inseqno, last'.arg[1]))
       => IF sptps["B"].farfuture < sptps_replaywin \div 4
          THEN /\ ~last'.ok
               /\ last'.rx = <<>>
               /\ sptps'["B"].inseqno = sptps["B"].inseqno
               /\ sptps'["B"].late = sptps["B"].late
               /\ sptps'["B"].farfuture = sptps["B"].farfuture + 1
          ELSE /\ last'.ok
               /\ last'.rx = <<(<<0, LE32(last'.arg[1])>>)>>
               /\ sptps'["B"].inseqno = U32Add(last'.arg[1], 1)
               /\ sptps'["B"].farfuture = 0
               /\ \A b \in 0..(sptps_replaywin - 1), k \in 0..7 :
                    TestBit(sptps'["B"].late[b], k)
                      = ~(b = U32Div8(last'.arg[1]) % sptps_replaywin /\ k = U32Mod8(last'.arg[1]))]_vars

\* The fifth datagram with seqno 200 in a row was accepted by a receiver that
\* expected seqno 2.
C18_Witness ==
  /\ last.op = "receive_datagram" /\ last.arg = <<U32(200), 0>> /\ last.ok
  /\ recd["B"] = <<(<<0, LE32(U32(200))>>)>>
  /\ sptps["B"].inseqno = U32(201)
  /\ sptps["B"].farfuture = 0
  /\ sptps["B"].late[9] = 254

\* seqno is below inseqno and not more than 8W below it.
InWindowBelow(inseqno, seqno) ==
  /\ U32Less(seqno, inseqno)
  /\ U32Less(inseqno, U32(WindowBits)) \/ ~U32Less(seqno, U32Add(inseqno, -WindowBits))

\* C19: when an authentic datagram with inseqno < seqno < inseqno + 8W is
\* handed over it is accepted, inseqno becomes seqno + 1 and every seqno
\* skipped, those of [inseqno, seqno), is marked late.  A seqno that was due
\* since the start and is still within 8W below inseqno is accepted exactly
\* when its record has not been handed to receive_record before: once, and
\* never again; accepting it leaves inseqno as it is.
C19_LateOnce ==
  [][(last'.op = "receive_datagram" /\ last'.arg[2] = 0) =>
       /\ (/\ U32Less(sptps["B"].inseqno, last'.arg[1])
            /\ WindowInRange(sptps["B"].inseqno)
            /\ ~FarAhead(sptps["B"].inseqno, last'.arg[1]))
             => /\ last'.ok
                /\ sptps'["B"].inseqno = U32Add(last'.arg[1], 1)
                /\ \A k \in 0..(WindowBits - 1) :
                     U32Less(U32Add(sptps["B"].inseqno, k), last'.arg[1])
                       => IsLate(sptps'["B"].late, U32Add(sptps["B"].inseqno, k))
       /\ (/\ InWindowBelow(sptps["B"].inseqno, last'.arg[1])
            /\ ~U32Less(last'.arg[1], FirstLate))
             => /\ last'.ok = ~Delivered(last'.arg[1])
                /\ sptps'["B"].inseqno = sptps["B"].inseqno
                /\ recd'["B"] = IF Delivered(last'.arg[1]) THEN recd["B"]
                                 ELSE Append(recd["B"], <<0, LE32(last'.arg[1])>>)]_vars

\* Seqno 5, skipped when 7 arrived, was accepted once and is now refused.
C19_Witness ==
  /\ last.op = "receive_datagram" /\ last.arg = <<U32(5), 0>> /\ ~last.ok
  /\ recd["B"] = <<(<<0, LE32(U32(7))>>), (<<0, LE32(U32(5))>>)>>
  /\ sptps["B"].inseqno = U32(8)
  /\ IsLate(sptps["B"].late, U32(4)) /\ IsLate(sptps["B"].late, U32(6))
  /\ ~IsLate(sptps["B"].late, U32(5))

\* What a handshake record in a frame emitted after the first handshake is,
\* by the length of its plaintext: the type byte and the payload.
Kind(s, frame) ==
  LET plain == SealedPlain(Drop(frame, IF s.datagram THEN 4 ELSE 2))
  IN  IF plain[1] # B(SPTPS_HANDSHAKE) THEN "APP"
      ELSE IF Len(plain) = 1 + 4 + NONCE_SIZE + ECDH_SIZE THEN "KEX"
      ELSE IF Len(plain) = 1 + ECDSA_SIZE THEN "SIG"
      ELSE IF Len(plain) = 1 THEN "ACK"
      ELSE "OTHER"

Kinds(s, out) == [i \in 1..Len(out) |-> Kind(s, out[i])]

\* Both sessions have called sptps_force_kex and neither has been handed the
\* KEX of the other.
Simultaneous ==
  \A p \in Peers : sptps[p].rnd = 2 /\ sptps[p].state = SPTPS_KEX /\ sptps[p].hiskex = NULL

\* The second handshake is finished on both sides with the same key material.
SimultaneousDone ==
  /\ \A p \in Peers :
       /\ Keyed(p) /\ sptps[p].rnd = 2 /\ hs[p] = 2
       /\ InFlight(p) = <<>>
       /\ Len(sptps[p].keylog) = 2
       /\ sptps[p].outseqno = U32(2 + 3 + Len(sent[p]))
  /\ sptps["A"].keylog[2] = sptps["B"].keylog[2]
  /\ sptps["A"].keylog[2] # sptps["A"].keylog[1]

\* C20: when both sessions are in SPTPS_SECONDARY_KEX and both call
\* sptps_force_kex before either is handed the other's KEX, the second
\* handshake completes over the reliable in-order transport: both sessions
\* return to SPTPS_SECONDARY_KEX with the same new key material, no entry
\* point fails, and each side sends one KEX (in sptps_force_kex), one SIG
\* and one ACK: the initiator its SIG on the peer's KEX and its ACK on the
\* peer's SIG, the responder its SIG and its ACK on the peer's SIG.
C20_SimultaneousRekey ==
  /\ Simultaneous ~> SimultaneousDone
  /\ [](\A p \in Peers : ~failed[p])
  /\ [][last'.ok /\
        \A p \in Peers :
          last'.p = p =>
            Kinds(sptps[p], last'.out) =
              IF last'.op = "force_kex" THEN <<"KEX">>
              ELSE IF last'.op = "send_record" THEN <<"APP">>
              ELSE IF sptps[p].state = SPTPS_KEX /\ sptps'[p].state = SPTPS_SIG
                   THEN (IF sptps[p].initiator THEN <<"SIG">> ELSE <<>>)
              ELSE IF sptps[p].state = SPTPS_SIG /\ sptps'[p].state = SPTPS_ACK
                   THEN (IF sptps[p].initiator THEN <<"ACK">> ELSE <<"SIG", "ACK">>)
              ELSE <<>>]_vars

\* After two simultaneous sptps_force_kex calls both sessions are back in
\* SPTPS_SECONDARY_KEX with the key material of the second handshake.
C20_Witness ==
  /\ SimultaneousDone
  /\ last.op = "receive_data"
  /\ \A p \in Peers : sptps[p].key = NULL /\ sent[p] = <<>>

\* C21: in stream mode every sptps_receive_data call handed len >= 1 bytes
\* that does not fail returns a count c of bytes consumed with 1 <= c <= len
\* and dispatches at most one record, an application record or a handshake
\* record: s->inseqno counts at most one record more, receive_record is
\* called at most once.  A call returns 0 only when it fails, and the bytes
\* the caller has left to feed are fewer after every call that does not
\* fail, so a caller that feeds them again comes to an end.
C21_StreamProgress ==
  [][(last'.op = "receive_data" /\ ~sptps[last'.p].datagram) =>
       /\ last'.arg[1] >= 1
       /\ last'.ok => /\ 1 <= last'.ret /\ last'.ret <= last'.arg[1]
                      /\ Len(stream'[last'.p]) < Len(stream[last'.p])
       /\ last'.ret = 0 => ~last'.ok
       /\ ~last'.ok => last'.ret = 0
       /\ sptps'[last'.p].inseqno \in {sptps[last'.p].inseqno, U32Add(sptps[last'.p].inseqno, 1)}
       /\ Len(last'.rx) <= 1]_vars

\* Under keys B was handed a chunk of one byte, took it, and with it
\* completed and dispatched the application record of A.
C21_Witness ==
  /\ last.op = "receive_data" /\ last.p = "B" /\ last.ok
  /\ last.arg = <<1>> /\ last.ret = 1
  /\ sptps["B"].instate
  /\ recd["B"] = <<<<0, Hello>>>>
\* The sptps_receive_data call that left session t behind, made on session
\* s, went past sptps_check_seqno: an accepted datagram is counted in
\* received, and one at or ahead of s->inseqno moves inseqno; a datagram
\* refused by cipher_decrypt or by the window does neither.
PassedChecks(s, t) == t.received # s.received \/ t.inseqno # s.inseqno

\* An application record, and a handshake record that receive_handshake
\* refuses once it has been dispatched.
DatagramTypes == {0, SPTPS_HANDSHAKE}

\* The datagrams tried: record seqno of a type, byte k changed, and cut
\* short to 20 bytes or whole.
Tried(seqno, type, k, short) ==
  IF short THEN Take(Tampered(AuthenticTyped(seqno, type), k), SPTPS_DATAGRAM_OVERHEAD - 1)
  ELSE Tampered(AuthenticTyped(seqno, type), k)

\* C22: in every state of a datagram session with instate set and for every
\* datagram d, sptps_verify_datagram(d) returns true exactly when
\* sptps_receive_data, called on d in the same state, gets past both
\* cipher_decrypt and sptps_check_seqno and dispatches the record; the
\* datagrams far ahead of the window, late and replayed are decided the
\* same way by both.  What the last sptps_verify_datagram call answered is
\* what the call on the state it left answers.
C22_VerifyPredicts ==
  /\ sptps["B"].datagram /\ sptps["B"].instate
  /\ \A seqno \in SeqInputs, type \in DatagramTypes, k \in Flips, short \in BOOLEAN :
       sptps_verify_datagram(Idle(sptps["B"]), Tried(seqno, type, k, short)).ok
         <=> PassedChecks(Idle(sptps["B"]),
                          sptps_receive_data(Idle(sptps["B"]), Tried(seqno, type, k, short)).s)
  /\ last.op = "verify_datagram" =>
       last.ok = sptps_verify_datagram(Idle(sptps["B"]), Tampered(Authentic(last.arg[1]), last.arg[2])).ok

\* sptps_verify_datagram has just accepted the authentic datagram 200, far
\* ahead of the window, after sptps_receive_data refused it often enough;
\* it refuses the replay of a record received, and accepts a handshake
\* record in sequence that sptps_receive_data dispatches and then refuses.
C22_Witness ==
  /\ last.op = "verify_datagram" /\ last.arg = <<U32(200), 0>> /\ last.ok
  /\ sptps["B"].farfuture >= sptps_replaywin \div 4
  /\ Delivered(U32(2))
  /\ ~sptps_verify_datagram(Idle(sptps["B"]), Authentic(U32(2))).ok
  /\ sptps_verify_datagram(Idle(sptps["B"]), AuthenticTyped(sptps["B"].inseqno, SPTPS_HANDSHAKE)).ok
  /\ ~sptps_receive_data(Idle(sptps["B"]), AuthenticTyped(sptps["B"].inseqno, SPTPS_HANDSHAKE)).ok
\* C23: whatever application records, handshake records and rekeys a
\* session sends, it encrypts no two records under the same outbound key
\* (s->outcipher) with the same seqno as nonce.
C23_NonceUnique == \A p \in Peers : ~sptps[p].reused
====
